---------------------------- MODULE Spec2Model ----------------------------
(***************************************************************************)
(* A model of raccoon.py: the reconnaissance agent loop, its structured    *)
(* action codec (Request parsed from tagged blocks of a completion), the   *)
(* HTTP executor (send_request) and the session State.                     *)
(*                                                                         *)
(* Texts that the code normalises or renders (method, path, header and     *)
(* parameter names and values, body, the traffic section of the prompt)    *)
(* are sequences of one-character strings, so that upper-casing, trimming, *)
(* JSON decoding and line joining are computed character by character.     *)
(* Texts the code only passes through (the goal, tag and attribute names)  *)
(* are plain strings.                                                      *)
(***************************************************************************)
EXTENDS Integers, Sequences, FiniteSets, TLC

(***************************************************************************)
(* Bounds of the model.                                                    *)
(***************************************************************************)
MaxIterations == 2      \* --iterations ranges over 0..MaxIterations
MaxCap        == 2      \* --max-actions ranges over -MaxNegCap..MaxCap
MaxNegCap     == 2
MaxBlocks     == 3      \* segments (blocks or commentary) in one completion
MaxValueLen   == 3      \* characters of a drawn header/parameter/body value
MaxMethodLen  == 2      \* characters of a drawn method string
MaxBodyLen    == 3      \* characters of a drawn JSON-ish body

(***************************************************************************)
(* Python helpers.                                                         *)
(***************************************************************************)
Min(a, b) == IF a <= b THEN a ELSE b
Max(a, b) == IF a >= b THEN a ELSE b

\* All sequences over S of length at most n.
SeqsUpTo(S, n) == UNION {[1..m -> S] : m \in 0..n}

\* str.isspace() for the characters of the model.
Whitespace == {" ", "\t", "\n"}

LowerLetters == <<"a","b","c","d","e","f","g","h","i","j","k","l","m",
                  "n","o","p","q","r","s","t","u","v","w","x","y","z">>
UpperLetters == <<"A","B","C","D","E","F","G","H","I","J","K","L","M",
                  "N","O","P","Q","R","S","T","U","V","W","X","Y","Z">>

\* str.upper() of one character.
UpperChar(c) ==
    IF \E n \in 1..Len(LowerLetters) : LowerLetters[n] = c
    THEN UpperLetters[CHOOSE n \in 1..Len(LowerLetters) : LowerLetters[n] = c]
    ELSE c

\* StringConstraints(to_upper=True): the validated value is s.upper().
str_upper(s) == [n \in 1..Len(s) |-> UpperChar(s[n])]

\* A mutation of str_strip: only leading whitespace is removed (lstrip).
str_strip_left_only(s) ==
    LET keep == {n \in 1..Len(s) : s[n] \notin Whitespace}
    IN  IF keep = {} THEN <<>>
        ELSE SubSeq(s, CHOOSE n \in keep : \A m \in keep : n <= m, Len(s))

\* StringConstraints(strip_whitespace=True): the validated value is s.strip().
str_strip(s) ==
    LET keep == {n \in 1..Len(s) : s[n] \notin Whitespace}
    IN  IF keep = {} THEN <<>>
        ELSE SubSeq(s, CHOOSE n \in keep : \A m \in keep : n <= m,
                       CHOOSE n \in keep : \A m \in keep : n >= m)


(***************************************************************************)
(* Models: Header, Parameter, Request, Response.  Constructing a model     *)
(* validates it, which applies the string constraints of its fields.       *)
(***************************************************************************)
\* Header(name=..., value=...): value is str_strip, name is a plain str.
Header(name, value) == [name |-> name, value |-> str_strip(value)]

\* Parameter(name=..., value=...): value is str_strip, name is a plain str.
Parameter(name, value) == [name |-> name, value |-> str_strip(value)]

\* Request(method=..., path=..., headers=..., url_params=..., body=...):
\* method is str_upper, body is str_strip, path is a plain str.
Request(method, path, headers, url_params, body) ==
    [method     |-> str_upper(method),
     path       |-> path,
     headers    |-> headers,
     url_params |-> url_params,
     body       |-> str_strip(body)]

\* Response(status_code=..., headers=..., body=...): body is str_strip.
Response(status_code, headers, body) ==
    [status_code |-> status_code,
     headers     |-> headers,
     body        |-> str_strip(body)]

(***************************************************************************)
(* The tagged text format.  A text is a sequence of segments; a segment is *)
(* an element [tag, attrs, text, kids] (attrs a sequence of <<name, value>>*)
(* pairs, text the element's own character data, kids its child elements)  *)
(* or commentary, an element with the tag "#text".                         *)
(***************************************************************************)
Node(tag, attrs, text, kids) ==
    [tag |-> tag, attrs |-> attrs, text |-> text, kids |-> kids]

Commentary(text) == Node("#text", <<>>, text, <<>>)

HasAttr(e, name) == \E j \in 1..Len(e.attrs) : e.attrs[j][1] = name
Attr(e, name) == e.attrs[CHOOSE j \in 1..Len(e.attrs) : e.attrs[j][1] = name][2]

HasChild(e, tag) == \E j \in 1..Len(e.kids) : e.kids[j].tag = tag
Child(e, tag) == e.kids[CHOOSE j \in 1..Len(e.kids) :
                            /\ e.kids[j].tag = tag
                            /\ \A m \in 1..(j - 1) : e.kids[m].tag # tag]

RECURSIVE SelectTag(_, _)
\* The elements of kids that carry the tag, in order.
SelectTag(kids, tag) ==
    IF kids = <<>> THEN <<>>
    ELSE IF Head(kids).tag = tag
         THEN <<Head(kids)>> \o SelectTag(Tail(kids), tag)
         ELSE SelectTag(Tail(kids), tag)

\* The line break and indentation that pretty printing puts inside an
\* element that has child elements.
Indent(depth) == <<"\n">> \o [n \in 1..(3 * depth) |-> " "]

\* A mutation of to_pretty_xml: the wrapper of the parameters is written
\* with a hyphen, <url-params>, a tag the Request model does not read.
to_pretty_xml_hyphenated(r) ==
    Node("request",
         << <<"method", r.method>>, <<"path", r.path>> >>,
         Indent(1),
         << Node("headers", <<>>, Indent(2),
                 [n \in 1..Len(r.headers) |->
                     Node("header", << <<"name", r.headers[n].name>> >>,
                          r.headers[n].value, <<>>)]),
            Node("url-params", <<>>, Indent(2),
                 [n \in 1..Len(r.url_params) |->
                     Node("parameter", << <<"name", r.url_params[n].name>> >>,
                          r.url_params[n].value, <<>>)]),
            Node("body", <<>>, r.body, <<>>) >>)

\* Model.to_pretty_xml() of a Request: attributes method and path, the
\* lists wrapped in <headers> and <url_params>, the body as an element.
to_pretty_xml(r) ==
    Node("request",
         << <<"method", r.method>>, <<"path", r.path>> >>,
         Indent(1),
         << Node("headers", <<>>, Indent(2),
                 [n \in 1..Len(r.headers) |->
                     Node("header", << <<"name", r.headers[n].name>> >>,
                          r.headers[n].value, <<>>)]),
            Node("url_params", <<>>, Indent(2),
                 [n \in 1..Len(r.url_params) |->
                     Node("parameter", << <<"name", r.url_params[n].name>> >>,
                          r.url_params[n].value, <<>>)]),
            Node("body", <<>>, r.body, <<>>) >>)

\* Request.from_xml of one <request> block: the attributes method and path,
\* the wrapped lists (default []) and the body element (default "").
from_xml(e) ==
    LET hs == IF HasChild(e, "headers")
              THEN SelectTag(Child(e, "headers").kids, "header")
              ELSE <<>>
        ps == IF HasChild(e, "url_params")
              THEN SelectTag(Child(e, "url_params").kids, "parameter")
              ELSE <<>>
    IN  Request(Attr(e, "method"),
                Attr(e, "path"),
                [n \in 1..Len(hs) |-> Header(Attr(hs[n], "name"), hs[n].text)],
                [n \in 1..Len(ps) |-> Parameter(Attr(ps[n], "name"), ps[n].text)],
                IF HasChild(e, "body") THEN Child(e, "body").text ELSE <<>>)

\* A <request> block that validates: both required attributes are present
\* and every header and parameter entry names itself.
IsValidBlock(e) ==
    /\ e.tag = "request"
    /\ HasAttr(e, "method")
    /\ HasAttr(e, "path")
    /\ HasChild(e, "headers") =>
          \A h \in {Child(e, "headers").kids[n] :
                        n \in 1..Len(Child(e, "headers").kids)} :
              h.tag = "header" => HasAttr(h, "name")
    /\ HasChild(e, "url_params") =>
          \A p \in {Child(e, "url_params").kids[n] :
                        n \in 1..Len(Child(e, "url_params").kids)} :
              p.tag = "parameter" => HasAttr(p, "name")

RECURSIVE try_parse_many(_)
\* chat.last.try_parse_many(Request): the Requests of the valid <request>
\* blocks of the text, in text order; commentary and blocks that do not
\* validate are skipped, and the result may be empty.
try_parse_many(text) ==
    IF text = <<>> THEN <<>>
    ELSE IF IsValidBlock(Head(text))
         THEN <<from_xml(Head(text))>> \o try_parse_many(Tail(text))
         ELSE try_parse_many(Tail(text))

\* The canonical example instance built by Request.xml_example().
ExampleRequest ==
    Request(<<"G","E","T">>,
            <<"/","$","p","a","t","h">>,
            << Header(<<"X","-","H","e","a","d","e","r">>,
                      <<"m","y","-","v","a","l","u","e">>) >>,
            << Parameter(<<"n","a","m","e">>,
                         <<"t","e","s","t","-","p","a","r","a","m">>) >>,
            <<"$","b","o","d","y">>)

\* Request.xml_example(): the example instance, pretty printed.
xml_example == <<to_pretty_xml(ExampleRequest)>>

(***************************************************************************)
(* json.loads.  A Python value is a record tagged by its type.  The        *)
(* decoder follows json.decoder: whitespace around tokens, the literals    *)
(* null, true, false and NaN, integers, strings without escapes, arrays    *)
(* and objects.  Fractions, exponents and escapes are outside the alphabet *)
(* the bodies of the model are drawn from.                                 *)
(***************************************************************************)
PyNone       == [t |-> "None"]
PyBool(b)    == [t |-> "bool", b |-> b]
PyInt(n)     == [t |-> "int", n |-> n]
PyNaN        == [t |-> "float", f |-> "nan"]
PyStr(s)     == [t |-> "str", s |-> s]
PyList(xs)   == [t |-> "list", items |-> xs]
PyDict(kvs)  == [t |-> "dict", pairs |-> kvs]

\* bool(v) of a Python value: None, False, 0, "", [] and {} are falsy.
PyTruthy(v) ==
    CASE v.t = "None"  -> FALSE
      [] v.t = "bool"  -> v.b
      [] v.t = "int"   -> v.n # 0
      [] v.t = "float" -> TRUE
      [] v.t = "str"   -> Len(v.s) > 0
      [] v.t = "list"  -> Len(v.items) > 0
      [] v.t = "dict"  -> Len(v.pairs) > 0

JsonWhitespace == {" ", "\t", "\n", "\r"}
Digits == <<"0","1","2","3","4","5","6","7","8","9">>
IsDigit(c) == \E d \in 1..10 : Digits[d] = c
DigitValue(c) == (CHOOSE d \in 1..10 : Digits[d] = c) - 1

JsonFail == [ok |-> FALSE, val |-> PyNone, pos |-> 0]
JsonOk(v, p) == [ok |-> TRUE, val |-> v, pos |-> p]

\* s[p..] starts with the literal.
MatchAt(s, p, lit) ==
    /\ p + Len(lit) - 1 <= Len(s)
    /\ SubSeq(s, p, p + Len(lit) - 1) = lit

\* The first position at or after p that holds no JSON whitespace.
SkipWs(s, p) ==
    LET stops == {q \in p..(Len(s) + 1) :
                     q = Len(s) + 1 \/ s[q] \notin JsonWhitespace}
    IN  CHOOSE q \in stops : \A r \in stops : q <= r

\* The end (exclusive) of the run of digits that starts at p.
DigitsEnd(s, p) ==
    LET stops == {q \in p..(Len(s) + 1) : q = Len(s) + 1 \/ ~IsDigit(s[q])}
    IN  CHOOSE q \in stops : \A r \in stops : q <= r

RECURSIVE DigitsValue(_, _, _)
DigitsValue(s, p, q) ==
    IF q <= p THEN 0
    ELSE 10 * DigitsValue(s, p, q - 1) + DigitValue(s[q - 1])

\* -?(0|[1-9][0-9]*) at p.
ParseNumber(s, p) ==
    LET neg == s[p] = "-"
        b   == IF neg THEN p + 1 ELSE p
        e   == IF b <= Len(s) THEN DigitsEnd(s, b) ELSE b
    IN  IF e = b THEN JsonFail
        ELSE IF s[b] = "0"
             THEN JsonOk(PyInt(0), b + 1)
             ELSE JsonOk(PyInt(IF neg THEN 0 - DigitsValue(s, b, e)
                                      ELSE DigitsValue(s, b, e)), e)

\* A string at p (s[p] is the opening quote): up to the next quote, with
\* no control character in between.
ParseString(s, p) ==
    LET closes == {q \in (p + 1)..Len(s) : s[q] = "\""}
    IN  IF closes = {} THEN JsonFail
        ELSE LET q == CHOOSE c \in closes : \A r \in closes : c <= r
             IN  IF \E m \in (p + 1)..(q - 1) : s[m] \in {"\n", "\t", "\r", "\\"}
                 THEN JsonFail
                 ELSE JsonOk(PyStr(SubSeq(s, p + 1, q - 1)), q + 1)

\* dict[key] = val: an existing key keeps its place and takes the new value.
DictSet(kvs, key, val) ==
    IF \E n \in 1..Len(kvs) : kvs[n][1] = key
    THEN [n \in 1..Len(kvs) |-> IF kvs[n][1] = key THEN <<key, val>> ELSE kvs[n]]
    ELSE Append(kvs, <<key, val>>)

RECURSIVE ParseValue(_, _), ParseItems(_, _, _), ParseMembers(_, _, _)
\* One JSON value at p (p holds no whitespace).
ParseValue(s, p) ==
    IF p > Len(s) THEN JsonFail
    ELSE CASE MatchAt(s, p, <<"n","u","l","l">>)     -> JsonOk(PyNone, p + 4)
           [] MatchAt(s, p, <<"t","r","u","e">>)     -> JsonOk(PyBool(TRUE), p + 4)
           [] MatchAt(s, p, <<"f","a","l","s","e">>) -> JsonOk(PyBool(FALSE), p + 5)
           [] MatchAt(s, p, <<"N","a","N">>)         -> JsonOk(PyNaN, p + 3)
           [] s[p] = "\""                            -> ParseString(s, p)
           [] s[p] = "-" \/ IsDigit(s[p])            -> ParseNumber(s, p)
           [] s[p] = "[" ->
                LET q == SkipWs(s, p + 1)
                IN  IF q <= Len(s) /\ s[q] = "]"
                    THEN JsonOk(PyList(<<>>), q + 1)
                    ELSE ParseItems(s, q, <<>>)
           [] s[p] = "{" ->
                LET q == SkipWs(s, p + 1)
                IN  IF q <= Len(s) /\ s[q] = "}"
                    THEN JsonOk(PyDict(<<>>), q + 1)
                    ELSE ParseMembers(s, q, <<>>)
           [] OTHER -> JsonFail

\* The items of an array from p on: value (, value)* ].
ParseItems(s, p, acc) ==
    LET v == ParseValue(s, p)
    IN  IF ~v.ok THEN JsonFail
        ELSE LET q == SkipWs(s, v.pos)
             IN  IF q > Len(s) THEN JsonFail
                 ELSE IF s[q] = "]"
                      THEN JsonOk(PyList(Append(acc, v.val)), q + 1)
                 ELSE IF s[q] = ","
                      THEN ParseItems(s, SkipWs(s, q + 1), Append(acc, v.val))
                 ELSE JsonFail

\* The members of an object from p on: string : value (, string : value)* }.
ParseMembers(s, p, acc) ==
    IF p > Len(s) \/ s[p] # "\"" THEN JsonFail
    ELSE LET k == ParseString(s, p)
         IN  IF ~k.ok THEN JsonFail
             ELSE LET c == SkipWs(s, k.pos)
                  IN  IF c > Len(s) \/ s[c] # ":" THEN JsonFail
                      ELSE LET v == ParseValue(s, SkipWs(s, c + 1))
                           IN  IF ~v.ok THEN JsonFail
                               ELSE LET q   == SkipWs(s, v.pos)
                                        kvs == DictSet(acc, k.val.s, v.val)
                                    IN  IF q > Len(s) THEN JsonFail
                                        ELSE IF s[q] = "}"
                                             THEN JsonOk(PyDict(kvs), q + 1)
                                        ELSE IF s[q] = ","
                                             THEN ParseMembers(s, SkipWs(s, q + 1), kvs)
                                        ELSE JsonFail

\* json.loads(s): [ok |-> TRUE, val |-> value] when s is one JSON value
\* surrounded by optional whitespace, [ok |-> FALSE] (JSONDecodeError)
\* otherwise.
json_loads(s) ==
    LET v == ParseValue(s, SkipWs(s, 1))
    IN  IF v.ok /\ SkipWs(s, v.pos) = Len(s) + 1
        THEN [ok |-> TRUE, val |-> v.val]
        ELSE [ok |-> FALSE, val |-> PyNone]

(***************************************************************************)
(* send_request: the arguments handed to client.build_request.             *)
(***************************************************************************)
RECURSIVE HeaderDictFirstWins(_, _)
\* A mutation of HeaderDict: a name that is already a key keeps its first
\* value, as d.setdefault(h.name, h.value) for each header would do.
HeaderDictFirstWins(headers, acc) ==
    IF headers = <<>> THEN acc
    ELSE HeaderDictFirstWins(
             Tail(headers),
             IF \E n \in 1..Len(acc) : acc[n][1] = Head(headers).name
             THEN acc
             ELSE Append(acc, <<Head(headers).name, Head(headers).value>>))

RECURSIVE HeaderDict(_, _)
\* {h.name: h.value for h in request.headers}, built left to right.
HeaderDict(headers, acc) ==
    IF headers = <<>> THEN acc
    ELSE HeaderDict(Tail(headers),
                    DictSet(acc, Head(headers).name, Head(headers).value))

\* httpx's encode_request: content, when given, is the payload; otherwise
\* json, when given, is encoded as a JSON payload (content-type
\* application/json); otherwise the request has no payload.
EncodedAs(content, json) ==
    IF content.t # "None" THEN "content"
    ELSE IF json.t # "None" THEN "json"
    ELSE "empty"

\* A mutation of BuildRequest: the except clause names an exception that
\* json.loads does not raise, so a decode failure leaves send_request.
BuildRequestUncaught(request) ==
    LET decoded   == json_loads(request.body)
        json_body == IF decoded.ok THEN decoded.val ELSE PyNone
        content   == IF ~PyTruthy(json_body) THEN PyStr(request.body) ELSE PyNone
    IN  [raised  |-> ~decoded.ok,
         method  |-> request.method,
         url     |-> request.path,
         headers |-> HeaderDict(request.headers, <<>>),
         content |-> content,
         json    |-> json_body,
         sent_as |-> EncodedAs(content, json_body)]

\* Lines 108-119: json_body is the decoded body, None when json.loads
\* raised JSONDecodeError (caught, so nothing is raised here); content is
\* the raw body when json_body is falsy, None otherwise.
BuildRequest(request) ==
    LET decoded   == json_loads(request.body)
        json_body == IF decoded.ok THEN decoded.val ELSE PyNone
        content   == IF ~PyTruthy(json_body) THEN PyStr(request.body) ELSE PyNone
    IN  [raised  |-> FALSE,
         method  |-> request.method,
         url     |-> request.path,
         headers |-> HeaderDict(request.headers, <<>>),
         content |-> content,
         json    |-> json_body,
         sent_as |-> EncodedAs(content, json_body)]

\* Lines 122-126: the Response built from the transport's reply.
MakeResponse(reply) ==
    Response(reply.status_code,
             [n \in 1..Len(reply.headers) |->
                 Header(reply.headers[n][1], reply.headers[n][2])],
             reply.text)

(***************************************************************************)
(* State.get_prompt and the slice of the parse callback.                   *)
(***************************************************************************)
\* A mutation of actions[:max_actions]: the stop index is clamped at 0, as
\* min(len(actions), max(max_actions, 0)) would do.
PySliceToClamped(xs, stop) ==
    SubSeq(xs, 1, Min(Len(xs), Max(stop, 0)))

\* xs[:stop]: a negative stop counts from the end; the stop is then
\* clamped to 0..len(xs).
PySliceTo(xs, stop) ==
    LET s1 == IF stop < 0 THEN stop + Len(xs) ELSE stop
        s2 == IF s1 < 0 THEN 0 ELSE IF s1 > Len(xs) THEN Len(xs) ELSE s1
    IN  [n \in 1..s2 |-> xs[n]]

\* Line 18: a history window the code defines and never reads (as it never
\* reads MAX_PINS of line 17).
MAX_HISTORY == 5

\* str(n) of a status code.
RECURSIVE IntText(_)
IntText(n) ==
    IF n < 10 THEN <<Digits[n + 1]>>
    ELSE IntText(n \div 10) \o <<Digits[(n % 10) + 1]>>

\* xs[-n:] for n > 0: the last n elements, all of them when there are fewer.
PyLast(xs, n) ==
    SubSeq(xs, Max(1, Len(xs) - n + 1), Len(xs))

\* A mutation of TrafficLines: only the last MAX_HISTORY entries are
\* rendered, as self.traffic[-MAX_HISTORY:] would do.
TrafficLinesWindowed(traffic) ==
    LET shown == PyLast(traffic, MAX_HISTORY)
    IN  [n \in 1..Len(shown) |->
            shown[n][1].method \o <<" ">> \o shown[n][1].path
                \o <<" ", "-", ">", " ">> \o IntText(shown[n][2].status_code)]

\* Line 92, the generator: f"{r.method} {r.path} -> {res.status_code}" for
\* every traffic entry, in traffic order.
TrafficLines(traffic) ==
    [n \in 1..Len(traffic) |->
        traffic[n][1].method \o <<" ">> \o traffic[n][1].path
            \o <<" ", "-", ">", " ">> \o IntText(traffic[n][2].status_code)]

\* "\n".join(lines).
RECURSIVE JoinLines(_)
JoinLines(lines) ==
    IF lines = <<>> THEN <<>>
    ELSE IF Len(lines) = 1 THEN lines[1]
    ELSE lines[1] \o <<"\n">> \o JoinLines(Tail(lines))

\* Line 95: the placeholder.
NoTrafficYet == <<"N","o"," ","t","r","a","f","f","i","c"," ","y","e","t">>

\* A mutation of get_prompt: the default stands in for a falsy goal too,
\* as {self.goals[-1] or 'Explore the app'} would do, and for an empty
\* stack.
get_prompt_goal_or_default(traffic, goals) ==
    LET text == JoinLines(TrafficLines(traffic))
    IN  [traffic |-> IF text # <<>> THEN text ELSE NoTrafficYet,
         goal    |-> IF goals # <<>> /\ goals[Len(goals)] # ""
                     THEN goals[Len(goals)]
                     ELSE "Explore the app",
         example |-> xml_example]

\* State.get_prompt(): the sections of the prompt text.  The traffic
\* section is the joined lines or, when that text is empty, the
\* placeholder (traffic or 'No traffic yet').
get_prompt(traffic, goals) ==
    LET text == JoinLines(TrafficLines(traffic))
    IN  [traffic |-> IF text # <<>> THEN text ELSE NoTrafficYet,
         goal    |-> IF goals # <<>> THEN goals[Len(goals)]
                                     ELSE "Explore the app",
         example |-> xml_example]

(***************************************************************************)
(* Inputs of a run.                                                        *)
(***************************************************************************)
\* The default of --goal.
DefaultGoal == "Explore all endpoints in the app."

\* The values of --goal of the model: the default and the empty string.
Goals == {DefaultGoal, ""}

PathLetters == <<"a","b","c","d","e","f">>

\* The j-th block an LLM proposes: GET /a, GET /b, POST /c, ... written in
\* mixed case, the POST carrying a JSON body surrounded by whitespace.
Block(j) ==
    IF j % 3 = 0
    THEN Node("request",
              << <<"method", <<"p","o","s","t">> >>,
                 <<"path", <<"/", PathLetters[j]>> >> >>,
              <<"\n">>,
              << Node("body", <<>>, <<" ","{","}","\n">>, <<>>) >>)
    ELSE Node("request",
              << <<"method", <<"G","e","t">> >>,
                 <<"path", <<"/", PathLetters[j]>> >> >>,
              <<>>, <<>>)

\* The text of the blocks from..to, bare, or with commentary before each
\* block and at the end.
BlockText(from, to, commented) ==
    IF commented
    THEN [n \in 1..(2 * (to - from + 1) + 1) |->
             IF n % 2 = 1 THEN Commentary(<<"I"," ","w","i","l","l",":">>)
                          ELSE Block(from + (n \div 2) - 1)]
    ELSE [n \in 1..(to - from + 1) |-> Block(from + n - 1)]

\* The completions the generation service may return: every run of
\* consecutive blocks among Block(1..MaxBlocks), the empty run included,
\* bare or with commentary, and the example of the prompt echoed back.
Completions ==
    { BlockText(from, to, commented) :
          from \in 1..MaxBlocks, to \in 0..MaxBlocks, commented \in BOOLEAN }
    \cup {xml_example}

\* The replies the target may give to a call.
Replies ==
    { [status_code |-> 200,
       headers     |-> << <<<<"e","t","a","g">>, <<"1">>>> >>,
       text        |-> <<"o","k","\n">>],
      [status_code |-> 404, headers |-> <<>>, text |-> <<>>] }

(***************************************************************************)
(* The state of a run.                                                     *)
(***************************************************************************)
VARIABLES
    iterations,     \* --iterations
    max_actions,    \* --max-actions, also State.max_actions
    base_chat,      \* State.base_chat: the messages of the base conversation
    goals,          \* State.goals
    next_actions,   \* State.next_actions
    traffic,        \* State.traffic, a sequence of <<Request, Response>>
    pc,             \* the orchestrator's position
    round,          \* rounds started so far (i + 1 of the for loop)
    chat,           \* the messages of the forked pipeline of this round
    idx,            \* actions the for loop of step() has iterated over
    httpx_request,  \* the call awaiting client.send, or NoRequest
    base,           \* len(traffic) when step() was entered
    calls           \* how often each operation has been started

vars == <<iterations, max_actions, base_chat, goals, next_actions, traffic,
          pc, round, chat, idx, httpx_request, base, calls>>

NoRequest == [raised |-> FALSE, method |-> <<>>, url |-> <<>>, headers |-> <<>>,
              content |-> PyNone, json |-> PyNone, sent_as |-> "none"]

NoCalls == [get_prompt |-> 0, generate |-> 0, parse |-> 0, step |-> 0,
            send |-> 0, send_failed |-> 0]

Count(op) == [calls EXCEPT ![op] = @ + 1]

SystemMessage == [role |-> "system", content |-> "SYSTEM_PROMPT"]

\* Lines 139-151: the state after construction, before agent_loop runs.
Init ==
    /\ iterations \in 0..MaxIterations
    /\ base_chat = <<SystemMessage>>
    /\ max_actions \in (0 - MaxNegCap)..MaxCap
    /\ goals \in {<<g>> : g \in Goals}
    /\ next_actions = <<>>
    /\ traffic = <<>>
    /\ pc = "Loop"
    /\ round = 0
    /\ chat = <<>>
    /\ idx = 0
    /\ httpx_request = NoRequest
    /\ base = 0
    /\ calls = NoCalls

(***************************************************************************)
(* agent_loop.                                                             *)
(***************************************************************************)
\* A mutation of NextIteration: the loop bound is off by one, as
\* range(iterations + 1) would be.
NextIterationOffByOne ==
    /\ pc = "Loop"
    /\ round <= iterations
    /\ round' = round + 1
    /\ pc' = "AwaitingPrompt"
    /\ UNCHANGED <<iterations, max_actions, base_chat, goals, next_actions,
                   traffic, chat, idx, httpx_request, base, calls>>

\* Line 154: the for loop takes its next value.
NextIteration ==
    /\ pc = "Loop"
    /\ round < iterations
    /\ round' = round + 1
    /\ pc' = "AwaitingPrompt"
    /\ UNCHANGED <<iterations, max_actions, base_chat, goals, next_actions,
                   traffic, chat, idx, httpx_request, base, calls>>

\* Line 154: range(iterations) is exhausted; agent_loop returns.
Finish ==
    /\ pc = "Loop"
    /\ round >= iterations
    /\ pc' = "Done"
    /\ UNCHANGED <<iterations, max_actions, base_chat, goals, next_actions,
                   traffic, round, chat, idx, httpx_request, base, calls>>

\* A mutation of BuildPrompt: the prompt is added to the base conversation
\* itself, as chat.add(state.get_prompt()) in place of chat.fork(...)
\* would do, so the base conversation grows from round to round.
BuildPromptAddsToBase ==
    /\ pc = "AwaitingPrompt"
    /\ base_chat' =
          Append(base_chat,
                 [role |-> "user", content |-> get_prompt(traffic, goals)])
    /\ chat' = base_chat'
    /\ calls' = Count("get_prompt")
    /\ pc' = "AwaitingCompletion"
    /\ UNCHANGED <<iterations, max_actions, goals, next_actions, traffic,
                   round, idx, httpx_request, base>>

\* A mutation of BuildPrompt: get_prompt consumes the goal it renders, as
\* self.goals.pop() in place of self.goals[-1] would do.
BuildPromptPopsGoal ==
    /\ pc = "AwaitingPrompt"
    /\ chat' =
          Append(base_chat,
                 [role |-> "user", content |-> get_prompt(traffic, goals)])
    /\ goals' = SubSeq(goals, 1, Len(goals) - 1)
    /\ calls' = Count("get_prompt")
    /\ pc' = "AwaitingCompletion"
    /\ UNCHANGED <<iterations, max_actions, base_chat, next_actions, traffic,
                   round, idx, httpx_request, base>>

\* Line 162: chat.fork(state.get_prompt()) - a copy of the base
\* conversation plus the prompt built from the State; the base conversation
\* itself is left as it is.
BuildPrompt ==
    /\ pc = "AwaitingPrompt"
    /\ chat' =
          Append(base_chat,
                 [role |-> "user", content |-> get_prompt(traffic, goals)])
    /\ calls' = Count("get_prompt")
    /\ pc' = "AwaitingCompletion"
    /\ UNCHANGED <<iterations, max_actions, base_chat, goals, next_actions,
                   traffic, round, idx, httpx_request, base>>

\* Line 162: .run() - the generation service returns one completion.
Generate ==
    /\ pc = "AwaitingCompletion"
    /\ \E text \in Completions :
          chat' = Append(chat, [role |-> "assistant", content |-> text])
    /\ calls' = Count("generate")
    /\ pc' = "Parsing"
    /\ UNCHANGED <<iterations, max_actions, base_chat, goals, next_actions,
                   traffic, round, idx, httpx_request, base>>

\* Line 162: .run() - the generation call fails; the error leaves
\* agent_loop.
GenerateFail ==
    /\ pc = "AwaitingCompletion"
    /\ calls' = Count("generate")
    /\ pc' = "Aborted"
    /\ UNCHANGED <<iterations, max_actions, base_chat, goals, next_actions,
                   traffic, round, chat, idx, httpx_request, base>>

\* A mutation of Parse: the callback takes the first parsed action without
\* the empty-list fallback (parsed[0]), which raises on an empty result.
ParseWithoutFallback ==
    /\ pc = "Parsing"
    /\ LET parsed == try_parse_many(chat[Len(chat)].content)
       IN  IF parsed = <<>>
           THEN /\ next_actions' = next_actions
                /\ pc' = "Aborted"
           ELSE /\ next_actions' = PySliceTo(parsed, max_actions)
                /\ pc' = "Executing"
    /\ calls' = Count("parse")
    /\ UNCHANGED <<iterations, max_actions, base_chat, goals, traffic, round,
                   chat, idx, httpx_request, base>>

\* Lines 157-160: the then-callback parse.
Parse ==
    /\ pc = "Parsing"
    /\ LET parsed  == try_parse_many(chat[Len(chat)].content)
           actions == IF parsed # <<>> THEN parsed ELSE <<>>
       IN  next_actions' = PySliceTo(actions, max_actions)
    /\ calls' = Count("parse")
    /\ pc' = "Executing"
    /\ UNCHANGED <<iterations, max_actions, base_chat, goals, traffic, round,
                   chat, idx, httpx_request, base>>

(***************************************************************************)
(* State.step, Request.run and send_request.                               *)
(***************************************************************************)
\* Lines 163, 85-87: step() is called and its for loop starts; the Chat of
\* the round is dropped.
Step ==
    /\ pc = "Executing"
    /\ idx' = 0
    /\ base' = Len(traffic)
    /\ chat' = <<>>
    /\ calls' = Count("step")
    /\ pc' = "Running"
    /\ UNCHANGED <<iterations, max_actions, base_chat, goals, next_actions,
                   traffic, round, httpx_request>>

\* A mutation of RunAction: the call is started as a task of its own and
\* not awaited, as asyncio.create_task(action.run(self)) would do; the
\* loop goes on to the next action at once.
RunActionDetached ==
    /\ pc = "Running"
    /\ idx < Len(next_actions)
    /\ LET built == BuildRequest(next_actions[idx + 1])
       IN  IF built.raised
           THEN /\ httpx_request' = NoRequest
                /\ calls' = calls
                /\ idx' = idx
                /\ pc' = "Aborted"
           ELSE /\ httpx_request' = built
                /\ calls' = Count("send")
                /\ idx' = idx + 1
                /\ pc' = "Running"
    /\ UNCHANGED <<iterations, max_actions, base_chat, goals, next_actions,
                   traffic, round, chat, base>>

\* A mutation of RunAction: the loop walks next_actions from its end, as
\* reversed(self.next_actions) would.
RunActionReversed ==
    /\ pc = "Running"
    /\ idx < Len(next_actions)
    /\ LET built == BuildRequest(next_actions[Len(next_actions) - idx])
       IN  IF built.raised
           THEN /\ httpx_request' = NoRequest
                /\ calls' = calls
                /\ pc' = "Aborted"
           ELSE /\ httpx_request' = built
                /\ calls' = Count("send")
                /\ pc' = "Sending"
    /\ UNCHANGED <<iterations, max_actions, base_chat, goals, next_actions,
                   traffic, round, chat, idx, base>>

\* Lines 87-88, 64, 108-121: the loop takes the next action, run() calls
\* send_request, which builds the call and awaits client.send.
RunAction ==
    /\ pc = "Running"
    /\ idx < Len(next_actions)
    /\ LET built == BuildRequest(next_actions[idx + 1])
       IN  IF built.raised
           THEN /\ httpx_request' = NoRequest
                /\ calls' = calls
                /\ pc' = "Aborted"
           ELSE /\ httpx_request' = built
                /\ calls' = Count("send")
                /\ pc' = "Sending"
    /\ UNCHANGED <<iterations, max_actions, base_chat, goals, next_actions,
                   traffic, round, chat, idx, base>>

\* A mutation of SendOk: the pair is inserted at the front of traffic, as
\* traffic.insert(0, ...) would do.
SendOkPrepend ==
    /\ pc = "Sending"
    /\ \E reply \in Replies :
          traffic' = <<<<next_actions[idx + 1], MakeResponse(reply)>>>> \o traffic
    /\ idx' = idx + 1
    /\ httpx_request' = NoRequest
    /\ pc' = "Running"
    /\ UNCHANGED <<iterations, max_actions, base_chat, goals, next_actions,
                   round, chat, base, calls>>

\* A mutation of SendOk: the Response is paired with the first queued
\* action, as state.traffic.append((state.next_actions[0], response))
\* would do.
SendOkPairsFirstQueued ==
    /\ pc = "Sending"
    /\ \E reply \in Replies :
          traffic' = Append(traffic, <<next_actions[1], MakeResponse(reply)>>)
    /\ idx' = idx + 1
    /\ httpx_request' = NoRequest
    /\ pc' = "Running"
    /\ UNCHANGED <<iterations, max_actions, base_chat, goals, next_actions,
                   round, chat, base, calls>>

\* Lines 121-126, 65-67: the target replies; the pair is appended.
SendOk ==
    /\ pc = "Sending"
    /\ \E reply \in Replies :
          traffic' = Append(traffic, <<next_actions[idx + 1], MakeResponse(reply)>>)
    /\ idx' = idx + 1
    /\ httpx_request' = NoRequest
    /\ pc' = "Running"
    /\ UNCHANGED <<iterations, max_actions, base_chat, goals, next_actions,
                   round, chat, base, calls>>

\* A mutation of SendFail: run() catches the transport error, records a
\* synthetic failure Response and lets step() go on.
SendFailCaught ==
    /\ pc = "Sending"
    /\ traffic' = Append(traffic, <<next_actions[idx + 1], Response(0, <<>>, <<>>)>>)
    /\ idx' = idx + 1
    /\ httpx_request' = NoRequest
    /\ calls' = Count("send_failed")
    /\ pc' = "Running"
    /\ UNCHANGED <<iterations, max_actions, base_chat, goals, next_actions,
                   round, chat, base>>

\* A mutation of SendFail: step() clears the queue on its way out, as a
\* try/finally around its loop with the clear() in the finally would do.
SendFailClearsQueue ==
    /\ pc = "Sending"
    /\ httpx_request' = NoRequest
    /\ next_actions' = <<>>
    /\ calls' = Count("send_failed")
    /\ pc' = "Aborted"
    /\ UNCHANGED <<iterations, max_actions, base_chat, goals, traffic, round,
                   chat, idx, base>>

\* Line 121: client.send raises; nothing catches it up to asyncio.run.
SendFail ==
    /\ pc = "Sending"
    /\ httpx_request' = NoRequest
    /\ calls' = Count("send_failed")
    /\ pc' = "Aborted"
    /\ UNCHANGED <<iterations, max_actions, base_chat, goals, next_actions,
                   traffic, round, chat, idx, base>>

\* A mutation of StepReturn: step() returns without clearing the queue, as
\* it would with line 89 left out.
StepReturnKeepsQueue ==
    /\ pc = "Running"
    /\ idx >= Len(next_actions)
    /\ pc' = "Loop"
    /\ UNCHANGED <<iterations, max_actions, base_chat, goals, next_actions,
                   traffic, round, chat, idx, httpx_request, base, calls>>

\* Line 89: the for loop is exhausted; next_actions.clear(); step returns.
StepReturn ==
    /\ pc = "Running"
    /\ idx >= Len(next_actions)
    /\ next_actions' = <<>>
    /\ pc' = "Loop"
    /\ UNCHANGED <<iterations, max_actions, base_chat, goals, traffic, round,
                   chat, idx, httpx_request, base, calls>>

Next ==
    \/ NextIteration
    \/ Finish
    \/ BuildPrompt
    \/ Generate
    \/ GenerateFail
    \/ Parse
    \/ Step
    \/ RunAction
    \/ SendOk
    \/ SendFail
    \/ StepReturn

Spec == Init /\ [][Next]_vars

(***************************************************************************)
(* The codec on its own: a run stands at line 158 of its first round with  *)
(* a completion of one block drawn from bounded sets, and parses it.       *)
(***************************************************************************)
\* The default of --max-actions.
DefaultMaxActions == 2

MethodChars == {"g", "G", "t", "1"}
ValueChars  == {" ", "\n", "a"}

\* One <request> block with the given method; shape selects the sections
\* it carries, each holding the value v.
ShapedBlock(method, shape, v) ==
    LET hdr == Node("headers", <<>>, <<"\n">>,
                    << Node("header", << <<"name", <<"X">>>> >>, v, <<>>) >>)
        par == Node("url_params", <<>>, <<"\n">>,
                    << Node("parameter", << <<"name", <<"q">>>> >>, v, <<>>) >>)
        bod == Node("body", <<>>, v, <<>>)
    IN  Node("request",
             << <<"method", method>>, <<"path", <<"/","x">>>> >>,
             <<"\n">>,
             CASE shape = "bare"    -> <<>>
               [] shape = "headers" -> <<hdr>>
               [] shape = "params"  -> <<par>>
               [] shape = "body"    -> <<bod>>
               [] shape = "all"     -> <<hdr, par, bod>>
               [] shape = "empty"   -> << Node("headers", <<>>, <<"\n">>, <<>>),
                                          Node("url_params", <<>>, <<"\n">>, <<>>) >>)

Shapes == {"bare", "headers", "params", "body", "all", "empty"}

CodecTexts ==
    { <<ShapedBlock(m, sh, v)>> :
          m \in SeqsUpTo(MethodChars, MaxMethodLen),
          sh \in Shapes,
          v \in SeqsUpTo(ValueChars, MaxValueLen) }
    \cup {xml_example}

InitCodec ==
    /\ iterations = 1
    /\ base_chat = <<SystemMessage>>
    /\ max_actions = DefaultMaxActions
    /\ goals \in {<<g>> : g \in Goals}
    /\ next_actions = <<>>
    /\ traffic = <<>>
    /\ pc = "Parsing"
    /\ round = 1
    /\ \E text \in CodecTexts :
          chat = <<SystemMessage,
                   [role |-> "user", content |-> get_prompt(<<>>, goals)],
                   [role |-> "assistant", content |-> text]>>
    /\ idx = 0
    /\ httpx_request = NoRequest
    /\ base = 0
    /\ calls = [NoCalls EXCEPT !.get_prompt = 1, !.generate = 1]

NextCodec == Parse

SpecCodec == InitCodec /\ [][NextCodec]_vars

(***************************************************************************)
(* The executor on its own: a run stands in step() of its first round with *)
(* one queued Request whose body or headers are drawn from bounded sets.   *)
(***************************************************************************)
BodyChars == {"0", "1", "[", "]", "{", "}", "\"", " ", "x"}

\* Bodies with characters outside BodyChars.
LiteralBodies ==
    { <<"n","u","l","l">>, <<"t","r","u","e">>, <<"f","a","l","s","e">>,
      <<"N","a","N">>, <<"n","u","l">>, <<"-","0">>, <<"-","1">>,
      <<"[","0",",","1","]">>, <<"[","0",",","]">>,
      <<"{","\"","x","\"",":","0","}">>, <<"{","\"","x","\"",":","}">>,
      <<"h","e","l","l","o">> }

SendBodies == SeqsUpTo(BodyChars, MaxBodyLen) \cup LiteralBodies

\* The header lists of the queued action: none, one, a name listed twice
\* (adjacent, and with another name between), two names, and two names
\* that differ in case only (two different keys of the dict).
SendHeaders ==
    { <<>>,
      << Header(<<"X">>, <<"1">>) >>,
      << Header(<<"X">>, <<"1">>), Header(<<"X">>, <<"2">>) >>,
      << Header(<<"X">>, <<"1">>), Header(<<"Y">>, <<"2">>) >>,
      << Header(<<"X">>, <<"1">>), Header(<<"Y">>, <<"2">>),
         Header(<<"X">>, <<"3">>) >>,
      << Header(<<"X">>, <<"1">>), Header(<<"x">>, <<"2">>) >> }

InitSend ==
    /\ iterations = 1
    /\ base_chat = <<SystemMessage>>
    /\ max_actions = DefaultMaxActions
    /\ goals \in {<<g>> : g \in Goals}
    /\ \E b \in SendBodies, hs \in SendHeaders :
          next_actions = << Request(<<"P","O","S","T">>, <<"/","x">>, hs, <<>>, b) >>
    /\ traffic = <<>>
    /\ pc = "Running"
    /\ round = 1
    /\ chat = <<>>
    /\ idx = 0
    /\ httpx_request = NoRequest
    /\ base = 0
    /\ calls = [NoCalls EXCEPT !.get_prompt = 1, !.generate = 1,
                               !.parse = 1, !.step = 1]

NextSend ==
    \/ RunAction
    \/ SendOk
    \/ SendFail
    \/ StepReturn

SpecSend == InitSend /\ [][NextSend]_vars

(***************************************************************************)
(* Properties.                                                             *)
(***************************************************************************)
\* The completion the parse callback reads (chat.last).
LastCompletion == chat[Len(chat)].content

\* k: the number of valid action blocks of a text.
ValidBlockCount(text) ==
    Cardinality({n \in 1..Len(text) : IsValidBlock(text[n])})

IsPrefix(a, b) == Len(a) <= Len(b) /\ SubSeq(b, 1, Len(a)) = a

RoundWeight == 2 * MaxBlocks + 7

Measure ==
    CASE pc \in {"Done", "Aborted"} -> 0
      [] pc = "Loop"               -> (iterations - round) * RoundWeight + 1
      [] pc = "AwaitingPrompt"     -> (iterations - round) * RoundWeight + RoundWeight
      [] pc = "AwaitingCompletion" -> (iterations - round) * RoundWeight + RoundWeight - 1
      [] pc = "Parsing"            -> (iterations - round) * RoundWeight + RoundWeight - 2
      [] pc = "Executing"          -> (iterations - round) * RoundWeight + RoundWeight - 3
      [] pc = "Running"            ->
            (iterations - round) * RoundWeight + 2 * (Len(next_actions) - idx) + 3
      [] pc = "Sending"            ->
            (iterations - round) * RoundWeight + 2 * (Len(next_actions) - idx) + 2

\* The positions of the orchestrator from which a step that is no failing
\* generation or HTTP call can be taken (each has an action whose guard is
\* the position alone, or, for Running, either side of idx < len).
SteppingPositions ==
    {"Loop", "AwaitingPrompt", "AwaitingCompletion", "Parsing", "Executing",
     "Running", "Sending"}

\* C2: the loop performs exactly `iterations` rounds and then is Done: a
\* run never starts more than `iterations` rounds; when it is Done it has
\* built exactly `iterations` prompts, made `iterations` generation calls,
\* parsed `iterations` completions and called step() `iterations` times,
\* whatever the rounds yielded; and it gets there: every step lowers a
\* bounded measure, a step ends the run early only as a failing generation
\* or HTTP call, and short of that end the run stands at a position from
\* which it can step on.
C2_LoopBounded ==
    [][/\ Measure' < Measure
       /\ Measure' >= 0
       /\ round' <= iterations
       /\ pc' = "Done" =>
             /\ round' = iterations
             /\ calls'.get_prompt = iterations
             /\ calls'.generate = iterations
             /\ calls'.parse = iterations
             /\ calls'.step = iterations
       /\ pc' = "Aborted" => pc \in {"AwaitingCompletion", "Sending"}
       /\ pc' \notin {"Done", "Aborted"} => pc' \in SteppingPositions]_vars

\* A run of two rounds that is Done, one round with an action and one
\* without.
C2_Witness ==
    /\ pc = "Done"
    /\ iterations = 2
    /\ Len(traffic) = 1
    /\ calls.step = 2

\* len(traffic) is the number of HTTP calls completed so far in the run:
\* the calls started, less the one in flight and the one that failed.
TrafficCountsCompletedCalls ==
    Len(traffic) = calls.send - calls.send_failed
                       - (IF pc = "Sending" THEN 1 ELSE 0)

\* C3: traffic only ever grows at its end, one pair at a time, by the pair
\* of the call that was in flight, and its length is the number of HTTP
\* calls completed so far over all rounds.
C3_TrafficAppendOnly ==
    [][/\ IsPrefix(traffic, traffic')
       /\ traffic' # traffic =>
             /\ pc = "Sending"
             /\ Len(traffic') = Len(traffic) + 1
             /\ traffic'[Len(traffic')][1] = next_actions[idx + 1]
             /\ traffic'[Len(traffic')][1].method = httpx_request.method
             /\ traffic'[Len(traffic')][1].path = httpx_request.url
       /\ TrafficCountsCompletedCalls
       /\ TrafficCountsCompletedCalls']_vars

\* The second round has appended to the traffic of the first.
C3_Witness ==
    /\ round = 2
    /\ pc = "Loop"
    /\ base >= 2
    /\ Len(traffic) >= base + 2

\* The action the for loop of step() is at (pc is Running or Sending).
CurrentAction == next_actions[idx + 1]

\* C4 as stated: a request whose body is valid JSON text is built with the
\* parsed value as its JSON payload and with no raw content, and so is
\* sent as a JSON-typed payload.
C4_JsonBodySentAsJson ==
    (pc = "Sending" /\ json_loads(CurrentAction.body).ok) =>
        /\ httpx_request.json = json_loads(CurrentAction.body).val
        /\ httpx_request.content.t = "None"
        /\ httpx_request.sent_as = "json"

\* C5: for a request whose body json.loads does not decode (the empty body
\* included), send_request raises nothing: the call is built with the raw
\* body unchanged as content and no JSON payload, and is handed to
\* client.send.
C5_RawBodyFallback ==
    [][(/\ pc = "Running"
        /\ idx < Len(next_actions)
        /\ ~json_loads(CurrentAction.body).ok) =>
            /\ pc' = "Sending"
            /\ calls'.send = calls.send + 1
            /\ httpx_request'.content = PyStr(CurrentAction.body)
            /\ httpx_request'.json.t = "None"
            /\ httpx_request'.sent_as = "content"]_vars

\* The empty body is in flight as raw content.
C5_Witness ==
    /\ pc = "Sending"
    /\ CurrentAction.body = <<>>
    /\ httpx_request.content = PyStr(<<>>)
    /\ httpx_request.sent_as = "content"

\* C6: a failed HTTP call appends nothing to traffic and ends the run on
\* the spot; after it no HTTP call and no generation call is started, no
\* round is begun and traffic stays as it was.
C6_TransportFailureAborts ==
    [][/\ calls'.send_failed > calls.send_failed =>
             /\ pc = "Sending"
             /\ pc' = "Aborted"
             /\ traffic' = traffic
       /\ calls'.send_failed > 0 => pc' = "Aborted"
       /\ calls.send_failed > 0 =>
             /\ calls'.send = calls.send
             /\ calls'.generate = calls.generate
             /\ round' = round
             /\ traffic' = traffic]_vars

\* The second call of the first of two rounds failed: one pair is in
\* traffic, the second round is never performed.
C6_Witness ==
    /\ pc = "Aborted"
    /\ calls.send_failed = 1
    /\ iterations = 2
    /\ round = 1
    /\ Len(traffic) = 1
    /\ Len(next_actions) = 2

\* C7: a completion without a valid block queues the empty list; step()
\* on an empty queue starts no HTTP call, leaves traffic as it is and
\* returns; the loop then begins the next round, or is Done after the last.
C7_ZeroActionRound ==
    [][/\ (pc = "Parsing" /\ ValidBlockCount(LastCompletion) = 0) =>
             (pc' = "Executing" /\ next_actions' = <<>>)
       /\ (pc = "Executing" /\ next_actions = <<>>) =>
             (pc' = "Running" /\ traffic' = traffic /\ calls'.send = calls.send)
       /\ (pc = "Running" /\ next_actions = <<>>) =>
             /\ pc' = "Loop"
             /\ traffic' = traffic
             /\ calls'.send = calls.send
             /\ round' = round
       /\ (pc = "Loop" /\ round < iterations) =>
             (pc' = "AwaitingPrompt" /\ round' = round + 1)
       /\ (pc = "Loop" /\ round >= iterations) => pc' = "Done"]_vars

\* The second round begins after a first round that, with a cap of two
\* actions, ran none.
C7_Witness ==
    /\ pc = "AwaitingPrompt"
    /\ round = 2
    /\ max_actions = 2
    /\ calls.step = 1
    /\ calls.send = 0
    /\ traffic = <<>>

\* C8: parsing the text of Request.xml_example() gives exactly one Request:
\* method GET, path /$path, one header X-Header = my-value, one url
\* parameter name = test-param, body $body.
C8_ExampleRoundTrip ==
    (pc = "Executing" /\ LastCompletion = xml_example) =>
        next_actions =
            << [method     |-> <<"G","E","T">>,
                path       |-> <<"/","$","p","a","t","h">>,
                headers    |-> << [name  |-> <<"X","-","H","e","a","d","e","r">>,
                                   value |-> <<"m","y","-","v","a","l","u","e">>] >>,
                url_params |-> << [name  |-> <<"n","a","m","e">>,
                                   value |-> <<"t","e","s","t","-","p","a","r","a","m">>] >>,
                body       |-> <<"$","b","o","d","y">>] >>

\* The example text has been parsed.
C8_Witness ==
    /\ pc = "Executing"
    /\ LastCompletion = xml_example
    /\ Len(next_actions) = 1

\* out is the upper-cased form of in.
IsUpperOf(out, in) ==
    /\ Len(out) = Len(in)
    /\ \A n \in 1..Len(in) :
          /\ \A l \in 1..Len(LowerLetters) : out[n] # LowerLetters[l]
          /\ \/ out[n] = in[n]
             \/ \E l \in 1..Len(LowerLetters) :
                   in[n] = LowerLetters[l] /\ out[n] = UpperLetters[l]

\* out is in without its leading and trailing whitespace.
IsTrimOf(out, in) ==
    /\ out # <<>> => (out[1] \notin Whitespace /\ out[Len(out)] \notin Whitespace)
    /\ \E a, b \in 0..Len(in) :
          /\ a + b <= Len(in)
          /\ out = SubSeq(in, a + 1, Len(in) - b)
          /\ \A n \in 1..a : in[n] \in Whitespace
          /\ \A n \in (Len(in) - b + 1)..Len(in) : in[n] \in Whitespace

\* The entries of a parsed list are those of the section, values trimmed;
\* without the section the list is empty.
IsListOf(out, e, section, entry) ==
    IF HasChild(e, section)
    THEN LET kids == SelectTag(Child(e, section).kids, entry)
         IN  /\ Len(out) = Len(kids)
             /\ \A n \in 1..Len(kids) :
                   /\ out[n].name = Attr(kids[n], "name")
                   /\ IsTrimOf(out[n].value, kids[n].text)
    ELSE out = <<>>

\* C9: the Request parsed from a block has the upper-cased method of the
\* block, its header values, url-parameter values and body without leading
\* and trailing whitespace, empty lists for absent headers and url_params
\* sections and the empty string for an absent body.
C9_NormalizedOnParse ==
    (pc = "Executing" /\ Len(next_actions) = 1) =>
          LET e == LastCompletion[1]
               r == next_actions[1]
           IN  /\ IsUpperOf(r.method, Attr(e, "method"))
               /\ r.path = Attr(e, "path")
               /\ IsListOf(r.headers, e, "headers", "header")
               /\ IsListOf(r.url_params, e, "url_params", "parameter")
               /\ IF HasChild(e, "body")
                  THEN IsTrimOf(r.body, Child(e, "body").text)
                  ELSE r.body = <<>>

\* A block with a lower-case method and values wrapped in whitespace has
\* been parsed.
C9_Witness ==
    /\ pc = "Executing"
    /\ Attr(LastCompletion[1], "method") = <<"g","t">>
    /\ HasChild(LastCompletion[1], "headers")
    /\ HasChild(LastCompletion[1], "body")
    /\ Child(LastCompletion[1], "body").text = <<" ","a","\n">>
    /\ next_actions[1].method = <<"G","T">>
    /\ next_actions[1].body = <<"a">>
    /\ next_actions[1].headers[1].value = <<"a">>

\* Inside step(): the first idx queued actions, and no others, have been
\* run since step() was entered, each once and in list order, and their
\* pairs are the last idx entries of traffic; a call is in flight only for
\* the action after them, and none is in flight when the loop takes the
\* next action.
StepInOrder ==
    pc \in {"Running", "Sending"} =>
        /\ idx <= Len(next_actions)
        /\ Len(traffic) = base + idx
        /\ calls.send = base + idx + (IF pc = "Sending" THEN 1 ELSE 0)
        /\ \A n \in 1..idx : traffic[base + n][1] = next_actions[n]
        /\ pc = "Sending" =>
              /\ idx < Len(next_actions)
              /\ httpx_request.method = CurrentAction.method
              /\ httpx_request.url = CurrentAction.path
        /\ pc = "Running" => httpx_request = NoRequest

\* C10: step() runs every queued action exactly once, in list order, one
\* at a time, and returns with next_actions empty.
C10_StepSequential ==
    [][/\ StepInOrder
       /\ StepInOrder'
       /\ pc = "Executing" =>
             (pc' = "Running" /\ idx' = 0 /\ next_actions' = next_actions)
       /\ (pc \in {"Running", "Sending"} /\ pc' \in {"Running", "Sending"}) =>
             next_actions' = next_actions
       /\ (pc = "Running" /\ pc' = "Loop") =>
             /\ idx = Len(next_actions)
             /\ Len(traffic') = base + Len(next_actions)
             /\ next_actions' = <<>>]_vars

\* step() has returned from a round of two actions.
C10_Witness ==
    /\ pc = "Loop"
    /\ round = 1
    /\ next_actions = <<>>
    /\ Len(traffic) = 2
    /\ calls.send = 2
    /\ traffic[1][1] # traffic[2][1]

(***************************************************************************)
(* C11: one outstanding operation at a time.                               *)
(***************************************************************************)

\* The generation calls outstanding: the prompts submitted (line 162 builds
\* the prompt and awaits the pipeline) less the calls that have returned or
\* failed.
GenerationsOutstanding == calls.get_prompt - calls.generate

\* The HTTP calls outstanding: the calls handed to client.send less those
\* that failed and those whose pair has been appended.
HttpCallsOutstanding == calls.send - calls.send_failed - Len(traffic)

OneOutstanding ==
    /\ GenerationsOutstanding \in {0, 1}
    /\ HttpCallsOutstanding \in {0, 1}
    /\ GenerationsOutstanding + HttpCallsOutstanding <= 1
    /\ HttpCallsOutstanding = 1 <=> httpx_request # NoRequest

\* C11: at every moment at most one operation is outstanding, a generation
\* call or an HTTP call, never both and never two HTTP calls; a generation
\* call is started only when no HTTP call is outstanding, step() has been
\* called and has returned for every earlier round and each action it ran
\* has its pair in traffic; an HTTP call is started only when the
\* completion of its round has been generated and parsed and no generation
\* call is outstanding.
C11_OneOutstandingOperation ==
    [][/\ OneOutstanding
       /\ OneOutstanding'
       /\ calls'.get_prompt > calls.get_prompt =>
             /\ HttpCallsOutstanding = 0
             /\ GenerationsOutstanding = 0
             /\ calls.step = round - 1
             /\ calls.parse = round - 1
             /\ next_actions = <<>>
             /\ Len(traffic) = base + idx
             /\ Len(traffic) = calls.send
       /\ calls'.send > calls.send =>
             /\ GenerationsOutstanding = 0
             /\ HttpCallsOutstanding = 0
             /\ calls.generate = round
             /\ calls.parse = round
             /\ calls.step = round]_vars

\* The generation call of the second round is outstanding after the two
\* HTTP calls of the first round have completed.
C11_Witness ==
    /\ round = 2
    /\ pc = "AwaitingCompletion"
    /\ GenerationsOutstanding = 1
    /\ HttpCallsOutstanding = 0
    /\ Len(traffic) = 2
    /\ calls.send = 2

(***************************************************************************)
(* get_prompt on its own: a run stands at line 162 at the start of a       *)
(* round, each earlier round having run one action, with a history that    *)
(* may be longer than MAX_HISTORY, and builds the prompt.                  *)
(***************************************************************************)
MaxHistoryLen == 6

PromptRequests ==
    { Request(<<"G","E","T">>, <<"/","a">>, <<>>, <<>>, <<>>),
      Request(<<"P","O","S","T">>, <<"/","c">>, <<>>, <<>>, <<"{","}">>) }

PromptPairs ==
    { <<r, MakeResponse(reply)>> : r \in PromptRequests, reply \in Replies }

InitPrompt ==
    /\ iterations = MaxHistoryLen + 1
    /\ base_chat = <<SystemMessage>>
    /\ max_actions = 1
    /\ goals \in {<<g>> : g \in Goals}
    /\ next_actions = <<>>
    /\ traffic \in SeqsUpTo(PromptPairs, MaxHistoryLen)
    /\ pc = "AwaitingPrompt"
    /\ round = Len(traffic) + 1
    /\ chat = <<>>
    /\ idx = Min(1, Len(traffic))
    /\ httpx_request = NoRequest
    /\ base = Max(0, Len(traffic) - 1)
    /\ calls = [get_prompt |-> Len(traffic), generate |-> Len(traffic),
                parse |-> Len(traffic), step |-> Len(traffic),
                send |-> Len(traffic), send_failed |-> 0]

NextPrompt == BuildPrompt

SpecPrompt == InitPrompt /\ [][NextPrompt]_vars

\* The prompt the generation call of this round was given (pc is
\* AwaitingCompletion, Parsing or Executing).
RoundPrompt == chat[2].content

\* text.split("\n").
RECURSIVE SplitLines(_)
SplitLines(text) ==
    IF \A n \in 1..Len(text) : text[n] # "\n" THEN <<text>>
    ELSE LET p == CHOOSE n \in 1..Len(text) :
                      /\ text[n] = "\n"
                      /\ \A k \in 1..(n - 1) : text[k] # "\n"
         IN  <<SubSeq(text, 1, p - 1)>>
                 \o SplitLines(SubSeq(text, p + 1, Len(text)))

\* The line reads 'METHOD path -> status' for the pair: the method, a
\* space, the path, ' -> ' and the decimal numeral of the status code.
IsLineOf(line, pair) ==
    LET head == pair[1].method \o <<" ">> \o pair[1].path
                    \o <<" ", "-", ">", " ">>
    IN  /\ Len(line) > Len(head)
        /\ SubSeq(line, 1, Len(head)) = head
        /\ \A n \in (Len(head) + 1)..Len(line) : IsDigit(line[n])
        /\ line[Len(head) + 1] # "0"
        /\ DigitsValue(line, Len(head) + 1, Len(line) + 1) = pair[2].status_code

\* C12: the traffic section of the prompt built at the start of a round
\* holds exactly one line 'METHOD path -> status' for every entry of
\* traffic, in traffic order, none omitted however long the history is;
\* it is the placeholder 'No traffic yet' if and only if traffic is empty.
C12_PromptListsAllTraffic ==
    pc = "AwaitingCompletion" =>
        LET lines == SplitLines(RoundPrompt.traffic)
        IN  /\ (RoundPrompt.traffic = NoTrafficYet) <=> (traffic = <<>>)
            /\ traffic # <<>> =>
                  /\ Len(lines) = Len(traffic)
                  /\ \A n \in 1..Len(traffic) : IsLineOf(lines[n], traffic[n])

\* A prompt built over a history longer than MAX_HISTORY lists it all.
C12_Witness ==
    /\ pc = "AwaitingCompletion"
    /\ Len(traffic) > MAX_HISTORY
    /\ Len(SplitLines(RoundPrompt.traffic)) = Len(traffic)
    /\ traffic[1] # traffic[Len(traffic)]

(***************************************************************************)
(* C13: the active goal.                                                   *)
(***************************************************************************)
\* The longest goal stack get_prompt is applied to.
MaxGoalStack == 2

\* While the prompt of the round is at hand, its goal section is the one
\* goal of the State.
PromptRendersGoal ==
    pc \in {"AwaitingCompletion", "Parsing", "Executing"} =>
        RoundPrompt.goal = goals[1]

\* C13: get_prompt renders the last entry of goals when goals is not
\* empty, the empty string included, and the default 'Explore the app'
\* only for the empty stack; a run starts with the one-element stack of
\* the --goal value and no step changes goals, so the prompt of every
\* round renders the initial goal.
C13_PromptRendersInitialGoal ==
    [][/\ pc = "AwaitingPrompt" =>
             \A gs \in SeqsUpTo(Goals, MaxGoalStack) :
                 get_prompt(traffic, gs).goal =
                     IF gs = <<>> THEN "Explore the app" ELSE gs[Len(gs)]
       /\ Len(goals) = 1
       /\ goals[1] \in Goals
       /\ goals' = goals
       /\ PromptRendersGoal
       /\ PromptRendersGoal']_vars

\* The prompt of the second round of a run started with --goal "" renders
\* the empty goal, after traffic has grown.
C13_Witness ==
    /\ pc = "AwaitingCompletion"
    /\ round = 2
    /\ goals = <<"">>
    /\ RoundPrompt.goal = ""
    /\ Len(traffic) = 2

(***************************************************************************)
(* C14: who writes which field of State.                                   *)
(***************************************************************************)
\* C14: building the prompt changes no field of State; the parse callback
\* changes next_actions only; step() changes traffic only by appending and
\* next_actions only by clearing it; no step at all changes goals or
\* max_actions, and outside the callback and step() nothing changes
\* next_actions or traffic.
C14_SingleWriterFrame ==
    [][/\ goals' = goals
       /\ max_actions' = max_actions
       /\ pc = "AwaitingPrompt" =>
             /\ pc' = "AwaitingCompletion"
             /\ calls'.get_prompt = calls.get_prompt + 1
             /\ next_actions' = next_actions
             /\ traffic' = traffic
       /\ pc = "Parsing" =>
             /\ calls'.parse = calls.parse + 1
             /\ traffic' = traffic
       /\ pc \in {"Executing", "Running", "Sending"} =>
             /\ IsPrefix(traffic, traffic')
             /\ next_actions' = next_actions \/ next_actions' = <<>>
       /\ next_actions' # next_actions =>
             \/ pc = "Parsing"
             \/ pc = "Running" /\ pc' = "Loop" /\ next_actions' = <<>>
       /\ traffic' # traffic => pc = "Sending"]_vars

\* Two rounds have been performed: the callback has assigned next_actions
\* twice, step() has appended three pairs and cleared the queue twice, and
\* the --goal and --max-actions values stand as given.
C14_Witness ==
    /\ pc = "Loop"
    /\ round = 2
    /\ calls.get_prompt = 2
    /\ calls.parse = 2
    /\ calls.step = 2
    /\ Len(traffic) = 3
    /\ next_actions = <<>>
    /\ max_actions = 2
    /\ goals = <<DefaultGoal>>

(***************************************************************************)
(* C15: duplicate header names.                                            *)
(***************************************************************************)
\* The entries of the built call's headers that carry the name.
ForwardedUnder(name) ==
    {n \in 1..Len(httpx_request.headers) : httpx_request.headers[n][1] = name}

\* The value of the last entry of the list that carries the name.
LastListed(headers, name) ==
    LET last == CHOOSE n \in 1..Len(headers) :
                    /\ headers[n].name = name
                    /\ \A k \in (n + 1)..Len(headers) : headers[k].name # name
    IN  headers[last].value

\* C15: the call send_request builds carries, for every name the action
\* lists, exactly one header of that name, with the value of the last
\* entry listed under the name (so a name listed once is forwarded with
\* its own value), and no header the action does not list.
C15_DuplicateHeaderLastWins ==
    pc = "Sending" =>
        /\ \A n \in 1..Len(CurrentAction.headers) :
              LET name == CurrentAction.headers[n].name
              IN  /\ Cardinality(ForwardedUnder(name)) = 1
                  /\ \A m \in ForwardedUnder(name) :
                        httpx_request.headers[m][2] =
                            LastListed(CurrentAction.headers, name)
        /\ \A m \in 1..Len(httpx_request.headers) :
              \E n \in 1..Len(CurrentAction.headers) :
                  CurrentAction.headers[n].name = httpx_request.headers[m][1]

\* The call of an action listing X: 1, Y: 2, X: 3 is in flight with
\* X: 3 and Y: 2.
C15_Witness ==
    /\ pc = "Sending"
    /\ Len(CurrentAction.headers) = 3
    /\ CurrentAction.headers[1].name = CurrentAction.headers[3].name
    /\ CurrentAction.headers[1].value # CurrentAction.headers[3].value
    /\ Len(httpx_request.headers) = 2
    /\ httpx_request.headers[1] = <<<<"X">>, <<"3">>>>
    /\ httpx_request.headers[2] = <<<<"Y">>, <<"2">>>>

(***************************************************************************)
(* C16: a round executes the actions of its own completion only.           *)
(***************************************************************************)
\* Between rounds, and in a round until its completion has been parsed,
\* the queue is empty.
QueueEmptyOutsideStep ==
    pc \in {"Loop", "AwaitingPrompt", "AwaitingCompletion", "Parsing", "Done"}
        => next_actions = <<>>

\* C16: in a run that has not failed next_actions is empty when a round
\* starts, when its prompt is built and while its generation call is
\* outstanding; the queue the callback of round i fills is a prefix of
\* the actions parsed from the completion generated in round i; that queue
\* stays as it is until step() of round i returns; every HTTP call
\* started is the call of the next queued action not yet run in this
\* step(), started after the parse of this round; and the queue is
\* emptied before the next round starts, so no action is run in a later
\* round or twice.
C16_ActionsRunInTheirRoundOnce ==
    [][/\ QueueEmptyOutsideStep
       /\ QueueEmptyOutsideStep'
       /\ pc = "Parsing" =>
             /\ Len(chat) = 3
             /\ calls.generate = round
             /\ calls.parse = round - 1
             /\ IsPrefix(next_actions', try_parse_many(LastCompletion))
       /\ (pc \in {"Executing", "Running", "Sending"}
              /\ pc' \in {"Running", "Sending"}) =>
             next_actions' = next_actions
       /\ calls'.send > calls.send =>
             /\ calls.parse = round
             /\ calls.step = round
             /\ calls.send = base + idx
             /\ idx' = idx
             /\ httpx_request'.method = next_actions[idx + 1].method
             /\ httpx_request'.url = next_actions[idx + 1].path
       /\ idx' # idx =>
             \/ pc = "Executing" /\ idx' = 0
             \/ /\ pc = "Sending"
                /\ idx' = idx + 1
                /\ traffic' = Append(traffic, traffic'[Len(traffic')])
                /\ traffic'[Len(traffic')][1] = next_actions[idx + 1]
       /\ (pc = "Running" /\ pc' = "Loop") =>
             /\ calls.send = base + Len(next_actions)
             /\ next_actions' = <<>>]_vars

\* The second round runs the second action of its own completion, which
\* differs from both actions the first round ran.
C16_Witness ==
    /\ pc = "Sending"
    /\ round = 2
    /\ calls.parse = 2
    /\ base = 2
    /\ idx = 1
    /\ Len(traffic) = 3
    /\ CurrentAction # traffic[1][1]
    /\ CurrentAction # traffic[2][1]
    /\ traffic[3][1] = next_actions[1]

(***************************************************************************)
(* C17: what a failed call leaves behind.                                  *)
(***************************************************************************)
\* The state a failed HTTP call leaves: the run has ended inside step(),
\* traffic holds, after what it held when step() was entered, the pairs
\* of the idx actions run before the failed one and nothing else, and the
\* queue still holds the batch, the failed action at position idx + 1.
LeftByFailedCall ==
    calls.send_failed > 0 =>
        /\ pc = "Aborted"
        /\ Len(traffic) = base + idx
        /\ \A n \in 1..idx : traffic[base + n][1] = next_actions[n]
        /\ idx < Len(next_actions)
        /\ calls.send = base + idx + 1

\* C17: when the HTTP call of the j-th queued action fails (j = idx + 1),
\* traffic keeps the j-1 pairs step() has appended before it and gains
\* nothing for the failed action or the actions queued after it, and
\* next_actions is not cleared: it holds the whole batch that step() was
\* entered with.
C17_FailureKeepsPartialTraffic ==
    [][/\ calls'.send_failed > calls.send_failed =>
             /\ pc = "Sending"
             /\ calls'.send_failed = 1
             /\ traffic' = traffic
             /\ next_actions' = next_actions
             /\ idx' = idx
             /\ base' = base
             /\ next_actions[idx + 1].method = httpx_request.method
             /\ next_actions[idx + 1].path = httpx_request.url
       /\ LeftByFailedCall
       /\ LeftByFailedCall'
       /\ (pc \in {"Executing", "Running", "Sending"} /\ pc' # "Loop") =>
             next_actions' = next_actions]_vars

\* The second of two calls of the second round has failed: the pair of
\* the round's first action is kept after the one pair of the first
\* round, and both actions are still queued.
C17_Witness ==
    /\ pc = "Aborted"
    /\ calls.send_failed = 1
    /\ round = 2
    /\ base = 1
    /\ idx = 1
    /\ Len(traffic) = 2
    /\ Len(next_actions) = 2
    /\ traffic[2][1] = next_actions[1]

(***************************************************************************)
(* C18: what a traffic entry pairs.                                        *)
(***************************************************************************)
\* The Response carries the status code, the headers (values trimmed) and
\* the trimmed text of the reply.
IsResponseTo(response, reply) ==
    /\ response.status_code = reply.status_code
    /\ response.body = str_strip(reply.text)
    /\ Len(response.headers) = Len(reply.headers)
    /\ \A k \in 1..Len(reply.headers) :
          /\ response.headers[k].name = reply.headers[k][1]
          /\ response.headers[k].value = str_strip(reply.headers[k][2])

\* C18: an entry is appended to traffic only by the step in which the one
\* outstanding HTTP call completes without failing; its request is the
\* queued action that call was built from, its Response is built from a
\* reply of the transport to that call; and every call that completes
\* appends exactly one entry.
C18_EntryPairsRequestWithItsReply ==
    [][/\ traffic' # traffic =>
             /\ pc = "Sending"
             /\ idx < Len(next_actions)
             /\ httpx_request = BuildRequest(next_actions[idx + 1])
             /\ httpx_request' = NoRequest
             /\ calls'.send_failed = calls.send_failed
             /\ calls'.send = calls.send
             /\ traffic' = Append(traffic, traffic'[Len(traffic')])
             /\ traffic'[Len(traffic')][1] = next_actions[idx + 1]
             /\ \E reply \in Replies :
                   IsResponseTo(traffic'[Len(traffic')][2], reply)
       /\ (pc = "Sending" /\ calls'.send_failed = calls.send_failed) =>
             /\ Len(traffic') = Len(traffic) + 1
             /\ Len(traffic') = calls'.send - calls'.send_failed
       /\ (pc = "Sending" /\ calls'.send_failed > calls.send_failed) =>
             traffic' = traffic]_vars

\* Two calls of one round have completed with different replies: each
\* entry pairs its own action with its own reply.
C18_Witness ==
    /\ pc = "Running"
    /\ base = 0
    /\ idx = 2
    /\ Len(traffic) = 2
    /\ traffic[1][1] = next_actions[1]
    /\ traffic[2][1] = next_actions[2]
    /\ next_actions[1] # next_actions[2]
    /\ traffic[1][2].status_code = 200
    /\ traffic[1][2].body = <<"o","k">>
    /\ traffic[2][2].status_code = 404

(***************************************************************************)
(* C19: the input of a generation call.                                    *)
(***************************************************************************)
\* The messages submitted to the generation service for the round (pc is
\* AwaitingCompletion).
GenerationInput == chat

\* The input of the outstanding generation call is two messages: the
\* system prompt and the prompt get_prompt yields for the traffic and
\* goals of the State as they stand at the start of the round.
InputIsSystemPromptAndPrompt ==
    pc = "AwaitingCompletion" =>
        /\ Len(GenerationInput) = 2
        /\ GenerationInput[1] = [role |-> "system", content |-> "SYSTEM_PROMPT"]
        /\ GenerationInput[2].role = "user"
        /\ GenerationInput[2].content = get_prompt(traffic, goals)

\* C19: the generation input of every round is the fixed system prompt
\* followed by the prompt built from the State at the start of the round
\* and nothing else; the base conversation every round forks is never
\* changed, so no prompt or completion of an earlier round is part of a
\* later input; the input is thus a function of traffic and goals alone,
\* equal for any two runs that start a round with the same traffic and
\* goals.
C19_GenerationInputFromStateOnly ==
    [][/\ base_chat = <<SystemMessage>>
       /\ base_chat' = base_chat
       /\ InputIsSystemPromptAndPrompt
       /\ InputIsSystemPromptAndPrompt'
       /\ pc' = "AwaitingCompletion" =>
             /\ pc = "AwaitingPrompt"
             /\ traffic' = traffic
             /\ goals' = goals]_vars

\* The second round starts with the traffic and goals the first round
\* started with (the first completion held no action) and submits the
\* input the first round submitted, although a prompt and a completion
\* have gone before.
C19_Witness ==
    /\ pc = "AwaitingCompletion"
    /\ round = 2
    /\ calls.generate = 1
    /\ calls.parse = 1
    /\ traffic = <<>>
    /\ GenerationInput = <<SystemMessage,
                           [role |-> "user",
                            content |-> get_prompt(<<>>, goals)]>>

=============================================================================
